---- MODULE Spec2Model ----
(***************************************************************************)
(* A model of WorkspaceFolder (src/src/Workspace.hpp): the Document Store   *)
(* (fileResolver.managedFiles), the dirty tracking of the analysis engine   *)
(* (Luau::Frontend), the pull-diagnostics report and the position queries.  *)
(* Strings that the code takes apart (paths, URIs, glob patterns) are       *)
(* sequences of tokens; every other string is a TLA+ string.                *)
(***************************************************************************)
EXTENDS Integers, Sequences, FiniteSets, TLC

VARIABLES
    managedFiles,   \* fileResolver.managedFiles: module name -> TextDocument
    dirty,          \* frontend: the module names for which isDirty() is true
    sourceModules,  \* frontend: the module names getSourceModule() finds
    modules,        \* frontend.moduleResolver: the names getModule() finds
    sourcemap,      \* fileResolver: virtual path -> source node
    last,           \* the last request handled: its engine calls and result
    session,        \* per URI: the open/edit/close sequence in progress
    workspace       \* the folder's name and what its constructor's setup() did

vars == <<managedFiles, dirty, sourceModules, modules, sourcemap, last, session,
          workspace>>

-----------------------------------------------------------------------------
(* Bounds of the model *)

MaxVersion == 1
MaxEdits == 2
MaxErrors == 2
MaxArgs == 2
MaxParts == 2

\* size_t arithmetic is done modulo 2^SizeBits; 30 bits stand for the 64 of
\* the build, every size of the model being far below either
SizeBits == 30

-----------------------------------------------------------------------------
(* Options and small sequence helpers *)

None == <<>>
Some(x) == <<x>>

RECURSIVE SeqsUpTo(_, _)
SeqsUpTo(S, n) ==
    IF n = 0 THEN {<<>>}
    ELSE LET shorter == SeqsUpTo(S, n - 1)
         IN  shorter \cup {Append(s, x) : s \in shorter, x \in S}

Range(s) == {s[i] : i \in 1..Len(s)}

\* the index of the first element of s equal to x, 0 when there is none
RECURSIVE IndexOf(_, _)
IndexOf(s, x) ==
    IF s = <<>> THEN 0
    ELSE IF Head(s) = x THEN 1
    ELSE LET r == IndexOf(Tail(s), x) IN IF r = 0 THEN 0 ELSE r + 1

\* how many elements of s equal x
RECURSIVE Count(_, _)
Count(s, x) ==
    IF s = <<>> THEN 0
    ELSE (IF Head(s) = x THEN 1 ELSE 0) + Count(Tail(s), x)

-----------------------------------------------------------------------------
(* Paths, URIs and module names *)

\* std::filesystem::path::generic_string of an absolute path: "/w/a"
RECURSIVE GenericString(_)
GenericString(path) ==
    IF path = <<>> THEN <<>>
    ELSE <<"/", Head(path)>> \o GenericString(Tail(path))

\* generic_string of a relative path: "s/b"
RelativeString(path) ==
    IF path = <<>> THEN <<>> ELSE Tail(GenericString(path))

UriFile(path) == [scheme |-> "file", path |-> path]

fsPath(uri) == uri.path

UriToString(uri) == <<uri.scheme, ":", "/", "/">> \o GenericString(uri.path)

getModuleName(uri) == GenericString(fsPath(uri))

rootUri == UriFile(<<"w">>)

PathA == <<"w", "a">>
PathB == <<"w", "b">>
PathLib == <<"w", "s", "b">>

UriA == UriFile(PathA)
UriB == UriFile(PathB)

Uris == {UriA, UriB}

ModuleNames == {getModuleName(u) : u \in Uris}

-----------------------------------------------------------------------------
(* WorkspaceFileResolver: the sourcemap index *)

VirtualA == <<"game", "/", "a">>
VirtualLib == <<"game", "/", "b">>
VirtualFolder == <<"game", "/", "c">>

\* sourcemap.json as loaded: two file-backed nodes and one grouping node
LoadedSourcemap ==
    (VirtualA :> [className |-> "ModuleScript", filePath |-> Some(PathA)]) @@
    (VirtualLib :> [className |-> "ModuleScript", filePath |-> Some(PathLib)]) @@
    (VirtualFolder :> [className |-> "Folder", filePath |-> None])

NoSourcemap == [n \in {} |-> None]

resolveVirtualPathToRealPath(name) ==
    IF name \in DOMAIN sourcemap THEN sourcemap[name].filePath ELSE None

-----------------------------------------------------------------------------
(* TextDocument *)

LanguageIds == {"luau"}
Texts == {"t0", "t1"}

TextDocument(uri, languageId, version, text) ==
    [uri |-> uri, languageId |-> languageId, version |-> version, text |-> text]

RECURSIVE ApplyChanges(_, _)
ApplyChanges(text, contentChanges) ==
    IF contentChanges = <<>> THEN text
    ELSE ApplyChanges(Head(contentChanges).text, Tail(contentChanges))

TextDocumentUpdate(doc, contentChanges, version) ==
    [doc EXCEPT !.version = version, !.text = ApplyChanges(doc.text, contentChanges)]

OpenParams ==
    [languageId : LanguageIds, version : 0..MaxVersion, text : Texts]

ChangeParams ==
    [version : 0..MaxVersion, contentChanges : SeqsUpTo([text : Texts], 1)]

-----------------------------------------------------------------------------
(* Luau::Frontend, as the workspace uses it *)

Call(fn, moduleName) == <<fn, moduleName>>

markDirty(dirtySet, moduleName) == dirtySet \cup {moduleName}

isDirty(moduleName) == moduleName \in dirty

\* what a check of a dirty module can come to
CheckOutcomes == {"checked", "unreadable", "noModule"}

\* the engine state after frontend.check(moduleName); a module that is not
\* dirty is served from the cache and nothing changes
FrontendCheck(moduleName, outcome) ==
    IF ~isDirty(moduleName)
    THEN [dirty |-> dirty, sourceModules |-> sourceModules, modules |-> modules]
    ELSE CASE outcome = "checked" ->
                [dirty |-> dirty \ {moduleName},
                 sourceModules |-> sourceModules \cup {moduleName},
                 modules |-> modules \cup {moduleName}]
           [] outcome = "unreadable" ->
                [dirty |-> dirty,
                 sourceModules |-> sourceModules \ {moduleName},
                 modules |-> modules]
           [] outcome = "noModule" ->
                [dirty |-> dirty \ {moduleName},
                 sourceModules |-> sourceModules \cup {moduleName},
                 modules |-> modules \ {moduleName}]

\* the engine state when check is not called
FrontendKeep ==
    [dirty |-> dirty, sourceModules |-> sourceModules, modules |-> modules]

SetFrontend(fe) ==
    /\ dirty' = fe.dirty
    /\ sourceModules' = fe.sourceModules
    /\ modules' = fe.modules

-----------------------------------------------------------------------------
(* The open/edit/close sequence of a URI, as the requests themselves tell it *)

NoSession == [state |-> "none", edits |-> 0, marks |-> 0]

SessionAfterOpen(uri) ==
    [session EXCEPT ![uri] = [state |-> "open", edits |-> 0, marks |-> 0]]

SessionAfterUpdate(uri, calls) ==
    IF session[uri].state = "open"
    THEN [session EXCEPT
            ![uri].edits = @ + 1,
            ![uri].marks = @ + Count(calls, Call("markDirty", getModuleName(uri)))]
    ELSE session

SessionAfterClose(uri) ==
    IF session[uri].state = "open"
    THEN [session EXCEPT ![uri].state = "closed"]
    ELSE session

-----------------------------------------------------------------------------
(* Document lifecycle *)

EmplaceAlone(map, key, value) == (key :> value)

\* std::unordered_map::emplace: an existing entry is kept
Emplace(map, key, value) ==
    IF key \in DOMAIN map THEN map ELSE map @@ (key :> value)

EraseAll(map, key) == [k \in {} |-> None]

Erase(map, key) == [k \in DOMAIN map \ {key} |-> map[k]]

openTextDocument(uri, params) ==
    LET moduleName == getModuleName(uri) IN
    /\ managedFiles' = Emplace(managedFiles, moduleName,
            TextDocument(uri, params.languageId, params.version, params.text))
    /\ dirty' = markDirty(dirty, moduleName)
    /\ last' = [op |-> "openTextDocument", uri |-> uri,
                calls |-> <<Call("markDirty", moduleName)>>]
    /\ session' = SessionAfterOpen(uri)
    /\ UNCHANGED <<sourceModules, modules, sourcemap, workspace>>

UpdateCallsWithoutMark(moduleName, loaded) == <<>>

UpdateCallsUnguarded(moduleName, loaded) == <<Call("markDirty", moduleName)>>

\* the engine calls of updateTextDocument
UpdateCalls(moduleName, loaded) ==
    IF loaded THEN <<Call("markDirty", moduleName)>> ELSE <<>>

updateTextDocument(uri, params) ==
    LET moduleName == getModuleName(uri)
        loaded == moduleName \in DOMAIN managedFiles
        calls == UpdateCalls(moduleName, loaded)
    IN
    /\ session[uri].state = "open" => session[uri].edits < MaxEdits
    /\ loaded => params.version >= managedFiles[moduleName].version
    /\ managedFiles' =
            IF loaded
            THEN [managedFiles EXCEPT ![moduleName] =
                    TextDocumentUpdate(@, params.contentChanges, params.version)]
            ELSE managedFiles
    /\ dirty' = IF Call("markDirty", moduleName) \in Range(calls)
                THEN markDirty(dirty, moduleName) ELSE dirty
    /\ last' = [op |-> "updateTextDocument", uri |-> uri, calls |-> calls,
                loaded |-> loaded, logged |-> ~loaded, result |-> "void"]
    /\ session' = SessionAfterUpdate(uri, calls)
    /\ UNCHANGED <<sourceModules, modules, sourcemap, workspace>>

closeTextDocument(uri) ==
    LET moduleName == getModuleName(uri) IN
    /\ managedFiles' = Erase(managedFiles, moduleName)
    /\ last' = [op |-> "closeTextDocument", uri |-> uri, calls |-> <<>>]
    /\ session' = SessionAfterClose(uri)
    /\ UNCHANGED <<dirty, sourceModules, modules, sourcemap, workspace>>

-----------------------------------------------------------------------------
(* Position queries *)

\* a check of a module whose document is open reads the live buffer, so only
\* a module that is read from disk can be unreadable
CheckOutcomePossible(moduleName, outcome) ==
    outcome = "unreadable" => moduleName \notin DOMAIN managedFiles

\* frontend.check(moduleName), called whatever isDirty says
CheckAlways(moduleName, outcome) ==
    [fe |-> FrontendCheck(moduleName, outcome),
     calls |-> <<Call("check", moduleName)>>]

CheckNever(moduleName, outcome) ==
    [fe |-> FrontendKeep, calls |-> <<Call("isDirty", moduleName)>>]

\* if (frontend.isDirty(moduleName)) frontend.check(moduleName);
CheckIfDirty(moduleName, outcome) ==
    IF isDirty(moduleName)
    THEN [fe |-> FrontendCheck(moduleName, outcome),
          calls |-> <<Call("isDirty", moduleName), Call("check", moduleName)>>]
    ELSE [fe |-> FrontendKeep,
          calls |-> <<Call("isDirty", moduleName)>>]

\* what reading through a null pointer can come to
UBOutcomes == {"crash", "absent", "value"}

Absent == [result |-> "absent", nullDeref |-> FALSE]
Value == [result |-> "value", nullDeref |-> FALSE]
NullDeref(ub) == [result |-> ub, nullDeref |-> TRUE]

QueryRecord(op, uri, chk, reads, r) ==
    [op |-> op, uri |-> uri,
     dirtyAtEntry |-> isDirty(getModuleName(uri)),
     calls |-> chk.calls \o reads,
     result |-> r.result, nullDeref |-> r.nullDeref]

HoverNodes == {"none", "expr", "local"}

\* hover after the check: node is what findExprOrLocalAtPosition finds
HoverResult(sourceFound, moduleFound, node, typeFound, ub) ==
    IF ~sourceFound THEN Absent
    ELSE IF node = "none" THEN Absent
    ELSE IF ~moduleFound THEN NullDeref(ub)
    ELSE IF typeFound THEN Value ELSE Absent

hover(uri, outcome, node, typeFound, ub) ==
    LET moduleName == getModuleName(uri)
        chk == CheckAlways(moduleName, outcome)
        sourceFound == moduleName \in chk.fe.sourceModules
        moduleFound == moduleName \in chk.fe.modules
        reads == IF sourceFound
                 THEN <<Call("getSourceModule", moduleName), Call("getModule", moduleName)>>
                 ELSE <<Call("getSourceModule", moduleName)>>
    IN
    /\ CheckOutcomePossible(moduleName, outcome)
    /\ SetFrontend(chk.fe)
    /\ last' = QueryRecord("hover", uri, chk, reads,
                    HoverResult(sourceFound, moduleFound, node, typeFound, ub))
    /\ UNCHANGED <<managedFiles, sourcemap, session, workspace>>

Ancestries == {"empty", "noCall", "call"}

\* signatureHelp after the check: ancestry is what findAstAncestryOfPosition finds
SignatureHelpResult(sourceFound, moduleFound, ancestry, typeFound, ub) ==
    IF ~sourceFound THEN Absent
    ELSE IF ancestry # "call" THEN Absent
    ELSE IF ~moduleFound THEN NullDeref(ub)
    ELSE IF typeFound THEN Value ELSE Absent

\* Luau types, as far as signatureHelp looks into them
FunctionTypeVar(name, hasSelf, argTypes, argNames) ==
    [tag |-> "function", name |-> name, hasSelf |-> hasSelf,
     argTypes |-> argTypes, argNames |-> argNames]
TableTypeVar == [tag |-> "table", name |-> None]
NamedTableTypeVar(name) == [tag |-> "table", name |-> Some(name)]
ClassTypeVar(name) == [tag |-> "class", name |-> Some(name)]
PrimitiveTypeVar(name) == [tag |-> "primitive", name |-> Some(name)]
BoundTypeVar(boundTo) == [tag |-> "bound", boundTo |-> boundTo]
IntersectionTypeVar(parts) == [tag |-> "intersection", parts |-> parts]

\* Luau::follow: the type at the end of a chain of bound types
RECURSIVE follow(_)
follow(t) == IF t.tag = "bound" THEN follow(t.boundTo) ELSE t

\* Luau::get<T>: the type itself when it is a T, nothing for any other type,
\* a bound type included
get(tag, t) == IF t.tag = tag THEN Some(t) ELSE None

\* the parser's argument list: an expression is expected after every comma,
\* and an error expression stands where none is written
ParsedArgs(written, trailingComma) ==
    IF trailingComma THEN written + 1 ELSE written

WrapSize(n) == n % (2 ^ SizeBits)

ActiveParameterUnguarded(size) == WrapSize(size - 1)

\* candidate->args.size == 0 ? 0 : candidate->args.size - 1
ActiveParameter(size) == IF size = 0 THEN 0 ELSE WrapSize(size - 1)

\* the parameter labels of addSignature: idx runs over ftv->argTypes
ParameterLabel(ftv, idx) ==
    (IF idx <= Len(ftv.argNames) /\ ftv.argNames[idx] # None
     THEN <<ftv.argNames[idx][1], ": ">> ELSE <<>>) \o <<ftv.argTypes[idx]>>

ParametersNamedFromStart(ftv, self) ==
    LET skip == ftv.hasSelf /\ self /\ Len(ftv.argTypes) >= 1
        first == IF skip THEN 1 ELSE 0
    IN  [i \in 1..(Len(ftv.argTypes) - first) |->
            (IF i <= Len(ftv.argNames) /\ ftv.argNames[i] # None
             THEN <<ftv.argNames[i][1], ": ">> ELSE <<>>) \o <<ftv.argTypes[first + i]>>]

Parameters(ftv, self) ==
    LET kept == IF ftv.hasSelf /\ self /\ Len(ftv.argTypes) >= 1
                THEN 2..Len(ftv.argTypes) ELSE 1..Len(ftv.argTypes)
        first == IF ftv.hasSelf /\ self /\ Len(ftv.argTypes) >= 1 THEN 1 ELSE 0
    IN  [i \in 1..Cardinality(kept) |-> ParameterLabel(ftv, first + i)]

\* addSignature(ftv)
addSignature(signatures, ftv, self) ==
    Append(signatures, [label |-> ftv.name, parameters |-> Parameters(ftv, self)])

\* the loop over intersect->parts
RECURSIVE AddParts(_, _, _)
AddParts(signatures, parts, self) ==
    IF parts = <<>> THEN signatures
    ELSE LET candidateFunctionType == get("function", Head(parts))
         IN  AddParts(
                IF candidateFunctionType # None
                THEN addSignature(signatures, candidateFunctionType[1], self)
                ELSE signatures,
                Tail(parts), self)

\* the signatures of a callee of type calleeType
Signatures(calleeType, self) ==
    LET followedId == follow(calleeType)
        ftv == get("function", followedId)
        intersect == get("intersection", followedId)
        single == IF ftv # None THEN addSignature(<<>>, ftv[1], self) ELSE <<>>
    IN  IF intersect # None THEN AddParts(single, intersect[1].parts, self)
        ELSE single

\* lsp::SignatureHelp{signatures, 0, activeParameter}
SignatureHelp(call) ==
    [signatures |-> Signatures(call.callee, call.self),
     activeSignature |-> 0,
     activeParameter |-> ActiveParameter(ParsedArgs(call.written, call.trailingComma))]

signatureHelp(uri, outcome, ancestry, typeFound, ub, call) ==
    LET moduleName == getModuleName(uri)
        chk == CheckAlways(moduleName, outcome)
        sourceFound == moduleName \in chk.fe.sourceModules
        moduleFound == moduleName \in chk.fe.modules
        reads == IF sourceFound
                 THEN <<Call("getSourceModule", moduleName), Call("getModule", moduleName)>>
                 ELSE <<Call("getSourceModule", moduleName)>>
        r == SignatureHelpResult(sourceFound, moduleFound, ancestry, typeFound, ub)
        record == QueryRecord("signatureHelp", uri, chk, reads, r)
    IN
    /\ CheckOutcomePossible(moduleName, outcome)
    /\ SetFrontend(chk.fe)
    /\ last' = IF r = Value
               THEN [call |-> call, help |-> SignatureHelp(call)] @@ record
               ELSE record
    /\ UNCHANGED <<managedFiles, sourcemap, session, workspace>>

\* the call expressions and callee types signatureHelp is asked about
FnPlain == FunctionTypeVar("f", FALSE, <<"number", "string">>, <<Some("x"), None>>)
FnMethod == FunctionTypeVar("m", TRUE, <<"T", "number">>, <<Some("self"), Some("n")>>)
FnFewNames ==
    FunctionTypeVar("g", TRUE, <<"T", "number", "string">>, <<Some("self"), Some("n")>>)

PartTypes == {FnPlain, FnFewNames, TableTypeVar, BoundTypeVar(FnPlain)}

CalleeTypes ==
    PartTypes \cup {FnMethod}
    \cup {IntersectionTypeVar(parts) : parts \in SeqsUpTo(PartTypes, MaxParts)}
    \cup {BoundTypeVar(IntersectionTypeVar(<<FnPlain, FnMethod>>))}

\* every argument list with one callee, and every callee with one argument list
Calls ==
    {c \in [written : 0..MaxArgs, trailingComma : BOOLEAN, self : BOOLEAN,
            callee : {FnMethod}] : c.trailingComma => c.written >= 1}
    \cup [written : {1}, trailingComma : {FALSE}, self : BOOLEAN, callee : CalleeTypes]

LightCalls ==
    {[written |-> 1, trailingComma |-> FALSE, self |-> FALSE, callee |-> FnPlain]}

\* gotoDefinition after the check: found is what findBindingAtPosition finds
GotoDefinitionResult(sourceFound, moduleFound, found) ==
    IF ~sourceFound \/ ~moduleFound THEN Absent
    ELSE IF found THEN Value ELSE Absent

gotoDefinition(uri, outcome, found) ==
    LET moduleName == getModuleName(uri)
        chk == CheckIfDirty(moduleName, outcome)
        sourceFound == moduleName \in chk.fe.sourceModules
        moduleFound == moduleName \in chk.fe.modules
        reads == <<Call("getSourceModule", moduleName), Call("getModule", moduleName)>>
    IN
    /\ CheckOutcomePossible(moduleName, outcome)
    /\ SetFrontend(chk.fe)
    /\ last' = QueryRecord("gotoDefinition", uri, chk, reads,
                    GotoDefinitionResult(sourceFound, moduleFound, found))
    /\ UNCHANGED <<managedFiles, sourcemap, session, workspace>>

TypeNodes == {"none", "type", "annotatedLocal", "other"}

\* gotoTypeDefinition after the check: node is what findNodeAtPosition and
\* findExprOrLocalAtPosition find, found is whether the alias resolves
GotoTypeDefinitionResult(sourceFound, moduleFound, node, found) ==
    IF ~sourceFound \/ ~moduleFound THEN Absent
    ELSE IF node \in {"type", "annotatedLocal"} /\ found THEN Value
    ELSE Absent

gotoTypeDefinition(uri, outcome, node, found) ==
    LET moduleName == getModuleName(uri)
        chk == CheckIfDirty(moduleName, outcome)
        sourceFound == moduleName \in chk.fe.sourceModules
        moduleFound == moduleName \in chk.fe.modules
        reads == <<Call("getSourceModule", moduleName), Call("getModule", moduleName)>>
    IN
    /\ CheckOutcomePossible(moduleName, outcome)
    /\ SetFrontend(chk.fe)
    /\ last' = QueryRecord("gotoTypeDefinition", uri, chk, reads,
                    GotoTypeDefinitionResult(sourceFound, moduleFound, node, found))
    /\ UNCHANGED <<managedFiles, sourcemap, session, workspace>>

\* Luau::autocomplete: checks the module, then reads its source unit and its
\* compiled module; without either there are no entries
Autocomplete(moduleName, outcome, entries) ==
    LET chk == CheckAlways(moduleName, outcome)
        sourceFound == moduleName \in chk.fe.sourceModules
        moduleFound == moduleName \in chk.fe.modules
    IN  [fe |-> chk.fe,
         calls |-> chk.calls \o
                   (IF sourceFound
                    THEN <<Call("getSourceModule", moduleName), Call("getModule", moduleName)>>
                    ELSE <<Call("getSourceModule", moduleName)>>),
         entryMap |-> IF sourceFound /\ moduleFound THEN entries ELSE <<>>]

EntryKinds == {"Property", "Binding", "Keyword", "String", "Type", "Module"}
\* the switch on entry.kind
KindOfEntryKind(kind) ==
    CASE kind = "Property" -> "Field"
      [] kind = "Binding" -> "Variable"
      [] kind = "Keyword" -> "Keyword"
      [] kind = "String" -> "Constant"
      [] kind = "Type" -> "Interface"
      [] kind = "Module" -> "Module"

CompletionItemKindFromCategory(entry) == KindOfEntryKind(entry.kind)

\* the kind after the look at the entry's followed type
CompletionItemKind(entry) ==
    IF entry.type = None THEN KindOfEntryKind(entry.kind)
    ELSE LET id == follow(entry.type[1])
             ttv == get("table", id)
         IN  IF get("function", id) # None THEN "Function"
             ELSE IF ttv # None
                  THEN IF ttv[1].name # None /\ ttv[1].name[1] = "RBXScriptSignal"
                       THEN "Event"
                       ELSE KindOfEntryKind(entry.kind)
             ELSE IF get("class", id) # None THEN "Class"
             ELSE KindOfEntryKind(entry.kind)

CompletionItem(entry) == [label |-> entry.name, kind |-> CompletionItemKind(entry)]

CompletionItems(entryMap) == [i \in 1..Len(entryMap) |-> CompletionItem(entryMap[i])]

Entry(name, kind, type) == [name |-> name, kind |-> kind, type |-> type]

EntryMaps == {<<>>, <<Entry("x", "Binding", None)>>}

\* entry.type: none, or a type of the module
EntryTypes ==
    {None} \cup
    {Some(t) : t \in {FnPlain, BoundTypeVar(FnPlain), TableTypeVar,
                      NamedTableTypeVar("RBXScriptSignal"),
                      BoundTypeVar(NamedTableTypeVar("RBXScriptSignal")),
                      NamedTableTypeVar("Vec"), ClassTypeVar("Part"),
                      PrimitiveTypeVar("number"),
                      IntersectionTypeVar(<<TableTypeVar, ClassTypeVar("Part")>>)}}

\* result.entryMap: every single entry, and maps of two and three entries
AllEntryMaps ==
    {<<>>}
    \cup {<<Entry("x", kind, type)>> : kind \in EntryKinds, type \in EntryTypes}
    \cup {<<Entry("x", "Property", Some(FnPlain)), Entry("y", "Keyword", None)>>,
          <<Entry("y", "Type", Some(ClassTypeVar("Part"))),
            Entry("x", "Binding", Some(NamedTableTypeVar("RBXScriptSignal"))),
            Entry("z", "Module", Some(TableTypeVar))>>}

completion(uri, outcome, entries) ==
    LET moduleName == getModuleName(uri)
        ac == Autocomplete(moduleName, outcome, entries)
        items == CompletionItems(ac.entryMap)
    IN
    /\ CheckOutcomePossible(moduleName, outcome)
    /\ SetFrontend(ac.fe)
    /\ last' = [op |-> "completion", uri |-> uri,
                dirtyAtEntry |-> isDirty(moduleName),
                calls |-> ac.calls,
                result |-> IF items = <<>> THEN "absent" ELSE "value",
                nullDeref |-> FALSE,
                entryMap |-> ac.entryMap,
                items |-> items]
    /\ UNCHANGED <<managedFiles, sourcemap, session, workspace>>

-----------------------------------------------------------------------------
(* Ignore globs *)

RECURSIVE CommonPrefixLen(_, _)
CommonPrefixLen(path, base) ==
    IF path = <<>> \/ base = <<>> THEN 0
    ELSE IF Head(path) # Head(base) THEN 0
    ELSE 1 + CommonPrefixLen(Tail(path), Tail(base))

\* std::filesystem::path::lexically_relative, for normalised absolute paths
LexicallyRelative(path, base) ==
    LET k == CommonPrefixLen(path, base) IN
    IF k = Len(path) /\ k = Len(base) THEN <<".">>
    ELSE [i \in 1..(Len(base) - k) |-> ".."] \o SubSeq(path, k + 1, Len(path))

\* glob::fnmatch_case: "*" stands for any run of characters, "?" for one
RECURSIVE fnmatch_case(_, _)
fnmatch_case(name, pattern) ==
    IF pattern = <<>> THEN name = <<>>
    ELSE IF Head(pattern) = "*"
         THEN \/ fnmatch_case(name, Tail(pattern))
              \/ name # <<>> /\ fnmatch_case(Tail(name), pattern)
    ELSE IF name = <<>> THEN FALSE
    ELSE /\ Head(pattern) = "?" \/ Head(pattern) = Head(name)
         /\ fnmatch_case(Tail(name), Tail(pattern))

isIgnoredFileFirstPatternOnly(path, config) ==
    LET relativePath == RelativeString(LexicallyRelative(path, fsPath(rootUri)))
    IN  config # <<>> /\ fnmatch_case(relativePath, config[1])

isIgnoredFile(path, config) ==
    LET relativePath == RelativeString(LexicallyRelative(path, fsPath(rootUri)))
    IN  \E i \in 1..Len(config) : fnmatch_case(relativePath, config[i])

PatternLib == <<"s", "/", "b">>
PatternUpperLib == <<"S", "/", "B">>
PatternAll == <<"*">>

\* config.ignoreGlobs, as the client can set it
GlobConfigs == {<<>>, <<PatternUpperLib>>, <<PatternUpperLib, PatternLib>>, <<PatternAll>>}

-----------------------------------------------------------------------------
(* Diagnostics *)

Position(line, column) == [line |-> line, column |-> column]

\* convertPosition(const Luau::Position&)
convertPosition(position) == [line |-> position.line, character |-> position.column]

ConvertRange(location) ==
    [start |-> convertPosition(location.begin), end |-> convertPosition(location.end)]

createTypeErrorDiagnostic(error) ==
    [source |-> "Luau",
     code |-> error.code,
     message |-> <<IF error.syntax THEN "SyntaxError: " ELSE "TypeError: ", error.text>>,
     severity |-> "Error",
     range |-> ConvertRange(error.location)]

createLintDiagnosticAsError(lint) ==
    [source |-> "Luau",
     code |-> lint.code,
     message |-> <<lint.name, ": ", lint.text>>,
     severity |-> "Error",
     range |-> ConvertRange(lint.location)]

createLintDiagnostic(lint) ==
    [source |-> "Luau",
     code |-> lint.code,
     message |-> <<lint.name, ": ", lint.text>>,
     severity |-> "Warning",
     range |-> ConvertRange(lint.location)]

errorDiagnosticAsWarning ==
    [source |-> "Luau",
     code |-> "000",
     message |-> <<"Failed to resolve source module for this file">>,
     severity |-> "Warning",
     range |-> [start |-> [line |-> 0, character |-> 0],
                end |-> [line |-> 0, character |-> 0]]]

\* the diagnostic of a module without a source unit
errorDiagnostic ==
    [source |-> "Luau",
     code |-> "000",
     message |-> <<"Failed to resolve source module for this file">>,
     severity |-> "Error",
     range |-> [start |-> [line |-> 0, character |-> 0],
                end |-> [line |-> 0, character |-> 0]]]

EmptyRelated == [k \in {} |-> <<>>]

\* the else branch of the loop over cr.errors: an error of another module
PlaceRelated(acc, error, config) ==
    LET diagnostic == createTypeErrorDiagnostic(error)
        fileName == resolveVirtualPathToRealPath(error.moduleName)
    IN  IF fileName = None \/ isIgnoredFile(fileName[1], config)
        THEN acc
        ELSE LET key == UriToString(UriFile(fileName[1]))
                 currentDiagnostics ==
                     IF key \in DOMAIN acc.related THEN acc.related[key] ELSE <<>>
             IN  [acc EXCEPT !.related =
                     (key :> Append(currentDiagnostics, diagnostic)) @@ @]

PlaceErrorAllPrimary(acc, error, moduleName, config) ==
    [acc EXCEPT !.items = Append(@, createTypeErrorDiagnostic(error))]

PlaceErrorFilteringOwn(acc, error, moduleName, config) ==
    IF error.moduleName = moduleName
    THEN IF \E path \in {PathA, PathB} :
                GenericString(path) = moduleName /\ isIgnoredFile(path, config)
         THEN acc
         ELSE [acc EXCEPT !.items = Append(@, createTypeErrorDiagnostic(error))]
    ELSE PlaceRelated(acc, error, config)

\* one turn of the loop over cr.errors; acc holds report.items and
\* relatedDiagnostics as built so far
PlaceError(acc, error, moduleName, config) ==
    IF error.moduleName = moduleName
    THEN [acc EXCEPT !.items = Append(@, createTypeErrorDiagnostic(error))]
    ELSE PlaceRelated(acc, error, config)

RECURSIVE PlaceErrors(_, _, _, _)
PlaceErrors(acc, errors, moduleName, config) ==
    IF errors = <<>> THEN acc
    ELSE PlaceErrors(PlaceError(acc, Head(errors), moduleName, config),
                     Tail(errors), moduleName, config)

\* the related diagnostics map as a map of full sub-reports
RelatedDocuments(related) ==
    [key \in DOMAIN related |-> [kind |-> "full", items |-> related[key]]]

\* the items of frontend.lint's result: errors first, raised to Error
LintItems(lr) ==
    [i \in 1..Len(lr.errors) |->
        [createLintDiagnostic(lr.errors[i]) EXCEPT !.severity = "Error"]]
    \o [i \in 1..Len(lr.warnings) |-> createLintDiagnostic(lr.warnings[i])]

\* the report of a module whose source unit is there
FullReport(cr, lr, moduleName, config) ==
    LET placed == PlaceErrors([items |-> <<>>, related |-> EmptyRelated],
                              cr, moduleName, config)
    IN  [items |-> placed.items \o LintItems(lr),
         relatedDocuments |-> RelatedDocuments(placed.related)]

BailReport == [items |-> <<errorDiagnostic>>, relatedDocuments |-> EmptyRelated]

\* the check result documentDiagnostics goes on with: that of frontend.check
\* when the module was dirty, a default-constructed one when it was not
CheckResultUsed(wasDirty, checkErrors) ==
    IF wasDirty THEN checkErrors ELSE <<>>

documentDiagnostics(uri, outcome, checkErrors, lr, config) ==
    LET moduleName == getModuleName(uri)
        chk == CheckIfDirty(moduleName, outcome)
        cr == CheckResultUsed(isDirty(moduleName), checkErrors)
        sourceFound == moduleName \in chk.fe.sourceModules
    IN
    /\ CheckOutcomePossible(moduleName, outcome)
    /\ SetFrontend(chk.fe)
    /\ last' =
        IF ~sourceFound
        THEN [op |-> "documentDiagnostics", uri |-> uri,
              dirtyAtEntry |-> isDirty(moduleName),
              calls |-> chk.calls \o <<Call("getSourceModule", moduleName)>>,
              report |-> BailReport]
        ELSE [op |-> "documentDiagnostics", uri |-> uri,
              dirtyAtEntry |-> isDirty(moduleName),
              calls |-> chk.calls \o <<Call("getSourceModule", moduleName),
                                       Call("lint", moduleName)>>,
              cr |-> cr, lr |-> lr, config |-> config,
              report |-> FullReport(cr, lr, moduleName, config)]
    /\ UNCHANGED <<managedFiles, sourcemap, session, workspace>>

\* what the engine can report
ErrorLocation == [begin |-> Position(1, 0), end |-> Position(1, 4)]

TypeErrorOf(origin) ==
    [moduleName |-> origin, code |-> 1000, text |-> <<"in", origin>>,
     syntax |-> FALSE, location |-> ErrorLocation]

SyntaxErrorOf(origin) ==
    [moduleName |-> origin, code |-> 1001, text |-> <<"in", origin>>,
     syntax |-> TRUE, location |-> ErrorLocation]

Origins ==
    {getModuleName(UriA), getModuleName(UriB), VirtualA, VirtualLib, VirtualFolder}

TypeErrors == {TypeErrorOf(o) : o \in Origins} \cup {SyntaxErrorOf(getModuleName(UriA))}

CheckResults == SeqsUpTo(TypeErrors, MaxErrors)

LintWarning == [code |-> 1, name |-> "UnknownGlobal", text |-> "x", location |-> ErrorLocation]

LintResults == [errors : {<<>>, <<LintWarning>>}, warnings : {<<>>, <<LintWarning>>}]

-----------------------------------------------------------------------------
(* Workspace routing *)

\* a URI string taken character by character: every name of the path is a
\* sequence of characters
RECURSIVE GenericChars(_)
GenericChars(names) ==
    IF names = <<>> THEN <<>>
    ELSE <<"/">> \o Head(names) \o GenericChars(Tail(names))

UriChars(names) == <<"file", ":", "/", "/">> \o GenericChars(names)

\* checkStr.compare(0, prefixStr.size(), prefixStr) == 0
ComparePrefix(checkStr, prefixStr) ==
    /\ Len(checkStr) >= Len(prefixStr)
    /\ SubSeq(checkStr, 1, Len(prefixStr)) = prefixStr

\* isInWorkspace of the folder whose rootUri is root
isInWorkspace(root, file) ==
    LET prefixStr == UriChars(root)
        checkStr == UriChars(file)
    IN  ComparePrefix(checkStr, prefixStr)

DirProj == <<"p", "r", "o", "j">>
DirProj2 == <<"p", "r", "o", "j", "2">>
DirOther == <<"o">>
FileA == <<"a">>

\* the root directories of the folders that are open together
WorkspaceRoots == {<<DirProj>>, <<DirProj2>>}

RouteFiles ==
    {<<DirProj>>, <<DirProj, FileA>>, <<DirProj2>>, <<DirProj2, FileA>>,
     <<DirOther, FileA>>, <<DirProj, DirProj2, FileA>>}

\* the routing of a request: every open folder is asked whether it holds file
route(file) ==
    /\ last' = [op |-> "isInWorkspace", file |-> file, calls |-> <<>>,
                contained |-> {root \in WorkspaceRoots : isInWorkspace(root, file)}]
    /\ UNCHANGED <<managedFiles, dirty, sourceModules, modules, sourcemap,
                   session, workspace>>

-----------------------------------------------------------------------------
(* setup(), run by the constructor *)

NullWorkspaceName == "$NULL_WORKSPACE"
WorkspaceNames == {"w", NullWorkspaceName}

\* sourcemap.json in the root directory, and the definitions file of the client
SourcemapFiles == {"absent", "malformed", "valid"}
DefinitionsFiles == {"notProvided", "unreadable", "syntaxError", "loaded"}

TypeCheckers == <<"typeChecker", "typeCheckerForAutocomplete">>

Event(fn, target, detail) == <<fn, target, detail>>

sendWindowMessage(type, about) == Event("sendWindowMessage", type, about)
sendLogMessage(type, about) == Event("sendLogMessage", type, about)

isNullWorkspaceNever(name) == FALSE

isNullWorkspace(name) == name = NullWorkspaceName

\* WorkspaceFileResolver::updateSourceMap: contents that do not parse leave
\* the tree as it was
SourcemapAfterLoad(contents) ==
    IF contents = "valid" THEN LoadedSourcemap ELSE NoSourcemap

\* WorkspaceFolder::updateSourceMap: true whenever the file could be read
updateSourceMap(sourcemapFile) ==
    IF sourcemapFile # "absent"
    THEN [result |-> TRUE,
          sourcemap |-> SourcemapAfterLoad(sourcemapFile),
          log |-> <<Event("updateSourceMap", "", ""),
                    Event("readFile", "sourcemap.json", ""),
                    Event("fileResolver.updateSourceMap", "", "")>>]
    ELSE [result |-> FALSE,
          sourcemap |-> NoSourcemap,
          log |-> <<Event("updateSourceMap", "", ""),
                    Event("readFile", "sourcemap.json", "")>>]

\* registerExtendedTypes for one type checker; rootSourceNode tells whether
\* the resolver holds a sourcemap tree
registerExtendedTypes(typeChecker, definitionsFile, rootSourceNode) ==
    LET read == <<Event("readFile", "definitionsFile", "")>>
        load == <<Event("loadDefinitionFile", typeChecker, "")>>
        children == IF rootSourceNode
                    THEN <<Event("makeProperty", typeChecker, "children"),
                           Event("prepareModuleScope", typeChecker, "")>>
                    ELSE <<>>
        magic == <<Event("attachMagicFunction", typeChecker, "Instance")>>
    IN  CASE definitionsFile = "unreadable" ->
                read \o <<sendWindowMessage("Error", "definitions")>>
          [] definitionsFile = "syntaxError" ->
                read \o load \o <<sendWindowMessage("Error", "definitions")>>
          [] definitionsFile = "loaded" ->
                read \o load \o children \o magic

\* the first statement of setup: the sourcemap, unless this is the null workspace
SetupSourcemap(name, sourcemapFile) ==
    IF isNullWorkspace(name)
    THEN [sourcemap |-> NoSourcemap, log |-> <<>>]
    ELSE LET r == updateSourceMap(sourcemapFile)
         IN  [sourcemap |-> r.sourcemap,
              log |-> r.log \o (IF r.result THEN <<>>
                                ELSE <<sendWindowMessage("Error", "sourcemap")>>)]

SetupBuiltins ==
    <<Event("registerBuiltinTypes", TypeCheckers[1], ""),
      Event("registerBuiltinTypes", TypeCheckers[2], "")>>

SetupDefinitions(definitionsFile, rootSourceNode) ==
    IF definitionsFile # "notProvided"
    THEN <<sendLogMessage("Info", "definitions")>>
         \o registerExtendedTypes(TypeCheckers[1], definitionsFile, rootSourceNode)
         \o registerExtendedTypes(TypeCheckers[2], definitionsFile, rootSourceNode)
    ELSE <<sendLogMessage("Error", "definitions"),
           sendWindowMessage("Error", "definitions")>>

SetupFreeze ==
    <<Event("freeze", TypeCheckers[1], ""), Event("freeze", TypeCheckers[2], "")>>

setupFreezingEarly(name, sourcemapFile, definitionsFile) ==
    LET sm == SetupSourcemap(name, sourcemapFile)
    IN  [name |-> name, sourcemapFile |-> sourcemapFile,
         definitionsFile |-> definitionsFile,
         sourcemap |-> sm.sourcemap,
         log |-> sm.log \o SetupBuiltins \o SetupFreeze
                 \o SetupDefinitions(definitionsFile, sm.sourcemap # NoSourcemap)]

\* the folder after setup(): what it read, and the calls it made in order
setup(name, sourcemapFile, definitionsFile) ==
    LET sm == SetupSourcemap(name, sourcemapFile)
    IN  [name |-> name, sourcemapFile |-> sourcemapFile,
         definitionsFile |-> definitionsFile,
         sourcemap |-> sm.sourcemap,
         log |-> sm.log \o SetupBuiltins
                 \o SetupDefinitions(definitionsFile, sm.sourcemap # NoSourcemap)
                 \o SetupFreeze]

-----------------------------------------------------------------------------

Init ==
    /\ managedFiles = [n \in {} |-> None]
    /\ dirty = ModuleNames
    /\ sourceModules = {}
    /\ modules = {}
    /\ sourcemap \in {NoSourcemap, LoadedSourcemap}
    /\ last = [op |-> "setup", uri |-> rootUri, calls |-> <<>>]
    /\ session = [u \in Uris |-> NoSession]
    /\ workspace =
            setup("w", IF sourcemap = LoadedSourcemap THEN "valid" ELSE "absent", "loaded")

\* the engine is asked to check only a dirty module: a clean one has no outcome
\* and no check result to enumerate
OutcomesFor(uri) ==
    IF isDirty(getModuleName(uri)) THEN CheckOutcomes ELSE {"checked"}

CheckResultsFor(uri) ==
    IF isDirty(getModuleName(uri)) THEN CheckResults ELSE {<<>>}

LightOpenParams == {[languageId |-> "luau", version |-> 0, text |-> "t0"]}
LightChangeParams == {[version |-> 1, contentChanges |-> <<[text |-> "t1"]>>]}

(* Spec: the document lifecycle of two URIs, and the analysis that cleans a module *)

OpenStep == \E uri \in Uris, params \in OpenParams : openTextDocument(uri, params)
UpdateStep == \E uri \in Uris, params \in ChangeParams : updateTextDocument(uri, params)
CloseStep == \E uri \in Uris : closeTextDocument(uri)
AnalyseStep == \E uri \in Uris : gotoDefinition(uri, "checked", TRUE)

Next ==
    \/ OpenStep
    \/ UpdateStep
    \/ CloseStep
    \/ AnalyseStep

Spec == Init /\ [][Next]_vars

(* SpecQuery: every position query on one document that is opened, edited and closed *)

QueryOpenStep == \E params \in LightOpenParams : openTextDocument(UriA, params)
QueryUpdateStep == \E params \in LightChangeParams : updateTextDocument(UriA, params)
QueryCloseStep == closeTextDocument(UriA)
HoverStep ==
    \E outcome \in OutcomesFor(UriA), node \in HoverNodes,
       typeFound \in BOOLEAN, ub \in UBOutcomes :
        hover(UriA, outcome, node, typeFound, ub)
SignatureHelpStep ==
    \E outcome \in OutcomesFor(UriA), ancestry \in Ancestries,
       typeFound \in BOOLEAN, ub \in UBOutcomes, call \in LightCalls :
        signatureHelp(UriA, outcome, ancestry, typeFound, ub, call)
GotoDefinitionStep ==
    \E outcome \in OutcomesFor(UriA), found \in BOOLEAN :
        gotoDefinition(UriA, outcome, found)
GotoTypeDefinitionStep ==
    \E outcome \in OutcomesFor(UriA), node \in TypeNodes, found \in BOOLEAN :
        gotoTypeDefinition(UriA, outcome, node, found)
CompletionStep ==
    \E outcome \in OutcomesFor(UriA), entries \in EntryMaps :
        completion(UriA, outcome, entries)

NextQuery ==
    \/ QueryOpenStep
    \/ QueryUpdateStep
    \/ QueryCloseStep
    \/ HoverStep
    \/ SignatureHelpStep
    \/ GotoDefinitionStep
    \/ GotoTypeDefinitionStep
    \/ CompletionStep

SpecQuery == Init /\ [][NextQuery]_vars

(* SpecDiag: pull diagnostics of one document that is opened and closed *)

DiagOpenStep == \E params \in LightOpenParams : openTextDocument(UriA, params)
DiagCloseStep == closeTextDocument(UriA)
DiagnosticsStep ==
    \E outcome \in OutcomesFor(UriA), checkErrors \in CheckResultsFor(UriA),
       lr \in LintResults, config \in GlobConfigs :
        documentDiagnostics(UriA, outcome, checkErrors, lr, config)

NextDiag ==
    \/ DiagOpenStep
    \/ DiagCloseStep
    \/ DiagnosticsStep

SpecDiag == Init /\ [][NextDiag]_vars

(* SpecSetup: every way setup() can go, then the folder in use *)

InitSetup ==
    /\ managedFiles = [n \in {} |-> None]
    /\ dirty = ModuleNames
    /\ sourceModules = {}
    /\ modules = {}
    /\ \E name \in WorkspaceNames, sourcemapFile \in SourcemapFiles,
          definitionsFile \in DefinitionsFiles :
            workspace = setup(name, sourcemapFile, definitionsFile)
    /\ sourcemap = workspace.sourcemap
    /\ last = [op |-> "setup", uri |-> rootUri, calls |-> <<>>]
    /\ session = [u \in Uris |-> NoSession]

SetupOpenStep == \E params \in LightOpenParams : openTextDocument(UriA, params)
SetupCloseStep == closeTextDocument(UriA)
SetupAnalyseStep ==
    \E outcome \in OutcomesFor(UriA) : gotoDefinition(UriA, outcome, TRUE)
SetupLintStep ==
    \E outcome \in OutcomesFor(UriA) :
        documentDiagnostics(UriA, outcome, <<>>, [errors |-> <<>>, warnings |-> <<>>], <<>>)
SetupCompletionStep ==
    \E outcome \in OutcomesFor(UriA) : completion(UriA, outcome, <<>>)
RouteStep == \E file \in RouteFiles : route(file)

NextSetup ==
    \/ SetupOpenStep
    \/ SetupCloseStep
    \/ SetupAnalyseStep
    \/ SetupLintStep
    \/ SetupCompletionStep
    \/ RouteStep

SpecSetup == InitSetup /\ [][NextSetup]_vars

(* SpecSignature: signature help for every call on one open document *)

SignatureOpenStep == \E params \in LightOpenParams : openTextDocument(UriA, params)
SignatureCloseStep == closeTextDocument(UriA)
SignatureStep ==
    \E outcome \in OutcomesFor(UriA), ancestry \in Ancestries, call \in Calls :
        signatureHelp(UriA, outcome, ancestry, TRUE, "absent", call)

NextSignature ==
    \/ SignatureOpenStep
    \/ SignatureCloseStep
    \/ SignatureStep

SpecSignature == Init /\ [][NextSignature]_vars

(* SpecCompletion: completion with every kind of entry on one open document *)

CompletionOpenStep == \E params \in LightOpenParams : openTextDocument(UriA, params)
CompletionCloseStep == closeTextDocument(UriA)
CompletionOfStep ==
    \E outcome \in OutcomesFor(UriA), entries \in AllEntryMaps :
        completion(UriA, outcome, entries)

NextCompletion ==
    \/ CompletionOpenStep
    \/ CompletionCloseStep
    \/ CompletionOfStep

SpecCompletion == Init /\ [][NextCompletion]_vars

-----------------------------------------------------------------------------
(* The document lifecycle (Spec) *)

\* C1: in every sequence of open, n edits and close on one URI, each edit
\* marks the module dirty exactly once (the marks of the edits equal their
\* number, and an edit of a loaded document makes the one markDirty call), the
\* entry is there while the document is open and gone after the close.
C1_EachEditMarksOnceCloseRemoves ==
    /\ \A u \in Uris :
        /\ session[u].state \in {"open", "closed"} => session[u].marks = session[u].edits
        /\ session[u].state = "open" => getModuleName(u) \in DOMAIN managedFiles
        /\ session[u].state = "closed" => getModuleName(u) \notin DOMAIN managedFiles
    /\ (last.op = "updateTextDocument" /\ last.loaded)
            => last.calls = <<Call("markDirty", getModuleName(last.uri))>>

C1_ClosedAfterTwoEdits ==
    \E u \in Uris :
        /\ session[u].state = "closed"
        /\ session[u].edits = 2
        /\ last.op = "closeTextDocument" /\ last.uri = u

\* C10: an updateTextDocument for a URI whose module has no entry in the store
\* leaves the store and the dirty set as they were, calls no markDirty and
\* returns normally.
C10_UpdateOfUnloadedChangesNothing ==
    [][\A u \in Uris, p \in ChangeParams :
        (updateTextDocument(u, p) /\ getModuleName(u) \notin DOMAIN managedFiles)
            => /\ managedFiles' = managedFiles
               /\ dirty' = dirty
               /\ last'.calls = <<>>
               /\ last'.result = "void"]_vars

C10_UpdateAfterClose ==
    /\ last.op = "updateTextDocument"
    /\ ~last.loaded
    /\ session[last.uri].state = "closed"
    /\ getModuleName(last.uri) \notin dirty

\* C11: after openTextDocument(uri, params) the store's entry for the module
\* of uri is a document with the text, version and language id of params,
\* whatever the store held before, an entry for that module included.
C11_OpenStoresParams ==
    [][\A u \in Uris, p \in OpenParams :
        openTextDocument(u, p)
            => /\ getModuleName(u) \in DOMAIN managedFiles'
               /\ managedFiles'[getModuleName(u)] =
                    TextDocument(u, p.languageId, p.version, p.text)]_vars

\* C12: openTextDocument(u) and an updateTextDocument(u) that finds the
\* document mark the module of u dirty and leave the dirty status and the
\* store entry of every other module as they were.
C12_OnlyOwnModuleTouched ==
    [][\A u \in Uris :
        LET m == getModuleName(u)
            Others == {n \in ModuleNames : n # m}
            touched ==
                \/ \E p \in OpenParams : openTextDocument(u, p)
                \/ \E p \in ChangeParams :
                        updateTextDocument(u, p) /\ m \in DOMAIN managedFiles
        IN  touched
                => /\ m \in dirty'
                   /\ \A n \in Others :
                        /\ (n \in dirty') = (n \in dirty)
                        /\ (n \in DOMAIN managedFiles') = (n \in DOMAIN managedFiles)
                        /\ n \in DOMAIN managedFiles => managedFiles'[n] = managedFiles[n]]_vars

C12_EditedBesideCleanLoadedModule ==
    /\ last.op = "updateTextDocument" /\ last.loaded
    /\ getModuleName(last.uri) \in dirty
    /\ \E n \in ModuleNames :
        /\ n # getModuleName(last.uri)
        /\ n \in DOMAIN managedFiles
        /\ n \notin dirty

\* C13: closeTextDocument(u) removes the store entry of the module of u and no
\* other, changes nothing when there is none, leaves the dirty set as it was
\* and calls neither markDirty nor check.
C13_CloseRemovesOnlyOwnEntry ==
    [][\A u \in Uris :
        closeTextDocument(u)
            => /\ DOMAIN managedFiles' = DOMAIN managedFiles \ {getModuleName(u)}
               /\ \A n \in DOMAIN managedFiles' : managedFiles'[n] = managedFiles[n]
               /\ getModuleName(u) \notin DOMAIN managedFiles => managedFiles' = managedFiles
               /\ dirty' = dirty
               /\ sourceModules' = sourceModules /\ modules' = modules
               /\ last'.calls = <<>>]_vars

C13_ClosedBesideLoadedModule ==
    /\ last.op = "closeTextDocument"
    /\ session[last.uri].state = "closed"
    /\ getModuleName(last.uri) \notin dirty
    /\ \E n \in DOMAIN managedFiles : n # getModuleName(last.uri) /\ n \in dirty


-----------------------------------------------------------------------------
(* The position queries (SpecQuery) *)

QueryOps == {"hover", "completion", "signatureHelp", "gotoDefinition", "gotoTypeDefinition"}

C4_AbsentWhenUnavailable ==
    last.op \in {"hover", "signatureHelp", "gotoDefinition", "gotoTypeDefinition"} =>
        LET m == getModuleName(last.uri) IN
        (m \notin sourceModules \/ m \notin modules)
            => last.result = "absent" /\ ~last.nullDeref

-----------------------------------------------------------------------------
(* Pull diagnostics (SpecDiag) *)

DiagDone == last.op = "documentDiagnostics"

\* the source unit was there: the errors were partitioned and lint ran
DiagFull == DiagDone /\ Call("lint", getModuleName(last.uri)) \in Range(last.calls)

IsTypeDiagnostic(d) == d.message[1] \in {"TypeError: ", "SyntaxError: "}

TypeDiagnostics(items) == {items[i] : i \in {j \in 1..Len(items) : IsTypeDiagnostic(items[j])}}

\* a real path, taken relative to the workspace root with forward slashes,
\* matches one of the ignore globs
MatchesIgnoreGlob(path, config) ==
    \E i \in 1..Len(config) :
        fnmatch_case(RelativeString(LexicallyRelative(path, <<"w">>)), config[i])

\* the error maps to a real path that no ignore glob matches
Reportable(error, config) ==
    /\ resolveVirtualPathToRealPath(error.moduleName) # None
    /\ ~MatchesIgnoreGlob(resolveVirtualPathToRealPath(error.moduleName)[1], config)

FileUriOf(error) ==
    UriToString(UriFile(resolveVirtualPathToRealPath(error.moduleName)[1]))

InRelated(report, d) ==
    \E k \in DOMAIN report.relatedDocuments : d \in Range(report.relatedDocuments[k].items)

\* C2: of two consecutive documentDiagnostics calls for one module with the same
\* configuration, the first finding the module dirty and checking it and the
\* second finding it clean, the second report holds every type-error diagnostic
\* and every related-document entry of the first.
C2_SecondReportKeepsTypeErrors ==
    [][(/\ DiagDone /\ DiagFull
        /\ last'.op = "documentDiagnostics" /\ last'.uri = last.uri
        /\ last.dirtyAtEntry /\ ~last'.dirtyAtEntry
        /\ Call("lint", getModuleName(last.uri)) \in Range(last'.calls)
        /\ last'.config = last.config)
        => /\ \A d \in TypeDiagnostics(last.report.items) :
                Count(last'.report.items, d) >= Count(last.report.items, d)
           /\ \A k \in DOMAIN last.report.relatedDocuments :
                /\ k \in DOMAIN last'.report.relatedDocuments
                /\ last'.report.relatedDocuments[k] = last.report.relatedDocuments[k]]_vars

\* C5: every type error of the check result whose origin is the requested
\* module is in the primary list and in no related document; every type error
\* of another origin that maps to a real path and is not ignored is under the
\* file URI of that path and not in the primary list; the primary list and the
\* related documents hold no other type-error diagnostic.
C5_TypeErrorsPartitioned ==
    DiagFull =>
        LET m == getModuleName(last.uri)
            cr == last.cr
            report == last.report
            D(i) == createTypeErrorDiagnostic(cr[i])
            Own == {i \in 1..Len(cr) : cr[i].moduleName = m}
            Rel == {i \in 1..Len(cr) : cr[i].moduleName # m /\ Reportable(cr[i], last.config)}
        IN  /\ \A i \in Own : D(i) \in Range(report.items) /\ ~InRelated(report, D(i))
            /\ \A i \in Rel :
                /\ FileUriOf(cr[i]) \in DOMAIN report.relatedDocuments
                /\ D(i) \in Range(report.relatedDocuments[FileUriOf(cr[i])].items)
                /\ D(i) \notin Range(report.items)
            /\ Cardinality({j \in 1..Len(report.items) : IsTypeDiagnostic(report.items[j])})
                    = Cardinality(Own)
            /\ \A k \in DOMAIN report.relatedDocuments :
                    Len(report.relatedDocuments[k].items)
                        = Cardinality({i \in Rel : FileUriOf(cr[i]) = k})

C5_OwnAndRelatedErrorReported ==
    /\ DiagFull
    /\ \E i \in 1..Len(last.cr) : last.cr[i].moduleName = getModuleName(last.uri)
    /\ \E i \in 1..Len(last.cr) :
            /\ last.cr[i].moduleName = VirtualLib
            /\ Reportable(last.cr[i], last.config)
            /\ FileUriOf(last.cr[i]) \in DOMAIN last.report.relatedDocuments

\* C6: the errors of another origin that maps to no real path, or whose real
\* path matches an ignore glob, are nowhere in the report, and every
\* related-document entry holds only diagnostics of errors whose origin maps to
\* the entry's file and is not ignored.
C6_UnmappedAndIgnoredDropped ==
    /\ (DiagDone /\ ~DiagFull) => DOMAIN last.report.relatedDocuments = {}
    /\ DiagFull =>
        LET m == getModuleName(last.uri)
            cr == last.cr
            report == last.report
        IN  /\ \A i \in 1..Len(cr) :
                (cr[i].moduleName # m /\ ~Reportable(cr[i], last.config))
                    => /\ createTypeErrorDiagnostic(cr[i]) \notin Range(report.items)
                       /\ ~InRelated(report, createTypeErrorDiagnostic(cr[i]))
            /\ \A k \in DOMAIN report.relatedDocuments :
                /\ report.relatedDocuments[k].items # <<>>
                /\ \A d \in Range(report.relatedDocuments[k].items) :
                      \E i \in 1..Len(cr) :
                          /\ d = createTypeErrorDiagnostic(cr[i])
                          /\ Reportable(cr[i], last.config)
                          /\ FileUriOf(cr[i]) = k

C6_FolderAndIgnoredOrigin ==
    /\ DiagFull
    /\ last.config = <<PatternUpperLib, PatternLib>>
    /\ \E i \in 1..Len(last.cr) : last.cr[i].moduleName = VirtualFolder
    /\ \E i \in 1..Len(last.cr) :
            /\ last.cr[i].moduleName = VirtualLib
            /\ resolveVirtualPathToRealPath(VirtualLib) = Some(PathLib)
    /\ DOMAIN last.report.relatedDocuments = {}

\* C7: no report has a related document under the URI of the requested
\* document itself.
C7_NoRelatedEntryForRequestedDocument ==
    DiagDone => UriToString(last.uri) \notin DOMAIN last.report.relatedDocuments

\* C8: whatever the ignore globs, one that matches the requested module's own
\* path included, the primary list holds every type error whose origin is the
\* requested module and every lint result of it.
C8_OwnDiagnosticsNeverIgnored ==
    DiagFull =>
        LET m == getModuleName(last.uri)
            cr == last.cr
            items == last.report.items
        IN  /\ \A i \in 1..Len(cr) :
                cr[i].moduleName = m =>
                    Count(items, createTypeErrorDiagnostic(cr[i])) = Count(cr, cr[i])
            /\ Cardinality({j \in 1..Len(items) : ~IsTypeDiagnostic(items[j])})
                    = Len(last.lr.errors) + Len(last.lr.warnings)

C8_OwnPathIgnored ==
    /\ DiagFull
    /\ MatchesIgnoreGlob(fsPath(last.uri), last.config)
    /\ \E i \in 1..Len(last.cr) : last.cr[i].moduleName = getModuleName(last.uri)
    /\ last.lr.warnings # <<>>

\* C9: when the source unit of the requested module is absent after the dirty
\* check, the report is one Error diagnostic at (0,0)-(0,0) with no related
\* documents, and lint is not run.
C9_MissingSourceBailsOut ==
    (DiagDone /\ getModuleName(last.uri) \notin sourceModules) =>
        /\ Len(last.report.items) = 1
        /\ last.report.items[1].severity = "Error"
        /\ last.report.items[1].range =
                [start |-> [line |-> 0, character |-> 0],
                 end |-> [line |-> 0, character |-> 0]]
        /\ DOMAIN last.report.relatedDocuments = {}
        /\ Call("lint", getModuleName(last.uri)) \notin Range(last.calls)

C9_CheckedButNoSource ==
    /\ DiagDone
    /\ getModuleName(last.uri) \notin sourceModules
    /\ last.dirtyAtEntry
    /\ Call("check", getModuleName(last.uri)) \in Range(last.calls)

IsLintDiagnostic(d) == ~IsTypeDiagnostic(d)

\* the lint finding as a diagnostic of the given severity
LintDiagnosticOf(lint, severity) ==
    [source |-> "Luau", code |-> lint.code,
     message |-> <<lint.name, ": ", lint.text>>,
     severity |-> severity,
     range |-> [start |-> [line |-> lint.location.begin.line,
                           character |-> lint.location.begin.column],
                end |-> [line |-> lint.location.end.line,
                         character |-> lint.location.end.column]]]

\* C18: a report of a module whose source unit is there comes from exactly one
\* lint call, that of the requested module, dirty or not; after the type
\* errors the primary list holds every lint error with Error severity and then
\* every lint warning with Warning severity, and no related document holds a
\* lint diagnostic.
C18_LintResultsPrimaryWithSeverity ==
    DiagFull =>
        LET m == getModuleName(last.uri)
            lr == last.lr
            lintItems == SelectSeq(last.report.items, IsLintDiagnostic)
            ne == Len(lr.errors)
            nw == Len(lr.warnings)
        IN  /\ Count(last.calls, Call("lint", m)) = 1
            /\ \A i \in 1..Len(last.calls) :
                    last.calls[i][1] = "lint" => last.calls[i][2] = m
            /\ Len(lintItems) = ne + nw
            /\ \A i \in 1..ne : lintItems[i] = LintDiagnosticOf(lr.errors[i], "Error")
            /\ \A i \in 1..nw :
                    lintItems[ne + i] = LintDiagnosticOf(lr.warnings[i], "Warning")
            /\ \A k \in DOMAIN last.report.relatedDocuments :
                    \A d \in Range(last.report.relatedDocuments[k].items) :
                        IsTypeDiagnostic(d)

C18_CleanModuleLinted ==
    /\ DiagFull
    /\ ~last.dirtyAtEntry
    /\ last.lr.errors # <<>>
    /\ last.lr.warnings # <<>>

-----------------------------------------------------------------------------
(* Signature help (SpecSignature) *)

HelpGiven == last.op = "signatureHelp" /\ last.result = "value" /\ ~last.nullDeref

\* C19: the active parameter of a signature help is the number of arguments of
\* the call minus one, 0 for a call without arguments; it is 1 when one
\* argument and a comma are written; the active signature is 0.
C19_ActiveParameterIsLastArgument ==
    HelpGiven =>
        LET n == last.call.written + (IF last.call.trailingComma THEN 1 ELSE 0)
        IN  /\ n = 0 => last.help.activeParameter = 0
            /\ n >= 1 => last.help.activeParameter = n - 1
            /\ (last.call.written = 1 /\ last.call.trailingComma)
                    => last.help.activeParameter = 1
            /\ last.help.activeSignature = 0

C19_HelpForCallWithoutArguments ==
    /\ HelpGiven
    /\ last.call.written = 0
    /\ last.help.signatures # <<>>

IsCallable(t) == follow(t).tag = "function"

\* the names of the callable members of an intersection, in the order of its parts
CallableMembers(parts) ==
    LET callable == SelectSeq(parts, IsCallable)
    IN  [i \in 1..Len(callable) |-> follow(callable[i]).name]

\* C20: the signatures of a signature help are the one of the callee's followed
\* type when that is a function type, one for every callable member in the
\* order of the parts when it is an intersection, and none otherwise.
C20_OneSignaturePerCallableMember ==
    HelpGiven =>
        LET t == follow(last.call.callee)
            labels == [i \in 1..Len(last.help.signatures) |-> last.help.signatures[i].label]
        IN  labels = CASE t.tag = "function" -> <<t.name>>
                       [] t.tag = "intersection" -> CallableMembers(t.parts)
                       [] OTHER -> <<>>

\* the function types of the model by name
FunctionNamed(name) ==
    CHOOSE f \in {FnPlain, FnMethod, FnFewNames} : f.name = name

\* C21: a signature's parameters leave out the first argument exactly when the
\* call is a method call and the function type has a self; every other
\* argument type gives one parameter, in order, whose label is the type,
\* preceded by the name declared for that argument position when there is one.
C21_ParametersSkipSelfKeepNames ==
    HelpGiven =>
        \A s \in 1..Len(last.help.signatures) :
            LET sig == last.help.signatures[s]
                ftv == FunctionNamed(sig.label)
                n == Len(ftv.argTypes)
                skipped == IF last.call.self /\ ftv.hasSelf THEN 1 ELSE 0
            IN  /\ Len(sig.parameters) = n - skipped
                /\ \A k \in 1..(n - skipped) :
                    LET pos == k + skipped
                        named == pos <= Len(ftv.argNames) /\ ftv.argNames[pos] # None
                    IN  sig.parameters[k] =
                            IF named
                            THEN <<ftv.argNames[pos][1], ": ", ftv.argTypes[pos]>>
                            ELSE <<ftv.argTypes[pos]>>

C21_MethodCallOfFunctionWithSelf ==
    /\ HelpGiven
    /\ last.call.self
    /\ last.call.callee = FnFewNames
    /\ Len(last.help.signatures) = 1
    /\ last.help.signatures[1].parameters = <<<<"n", ": ", "number">>, <<"string">>>>

-----------------------------------------------------------------------------
(* Completion (SpecCompletion) *)

\* the kind the entry's category stands for
CategoryKind(kind) ==
    CASE kind = "Property" -> "Field"
      [] kind = "Binding" -> "Variable"
      [] kind = "Keyword" -> "Keyword"
      [] kind = "String" -> "Constant"
      [] kind = "Type" -> "Interface"
      [] kind = "Module" -> "Module"

\* the type at the end of the entry's chain of bound types, when it has a type
FollowedType(entry) == IF entry.type = None THEN None ELSE Some(follow(entry.type[1]))

\* C22: a completion has one item per autocomplete entry, labelled with the
\* entry's name; its kind is Function for a followed function type, Event for
\* a followed table type named RBXScriptSignal, Class for a followed class
\* type, and the kind of the entry's category for an entry without a type or
\* with any other type.
C22_ItemKindFromTypeThenCategory ==
    last.op = "completion" =>
        /\ Len(last.items) = Len(last.entryMap)
        /\ \A i \in 1..Len(last.entryMap) :
            LET entry == last.entryMap[i]
                t == FollowedType(entry)
            IN  /\ last.items[i].label = entry.name
                /\ last.items[i].kind =
                    IF t # None /\ t[1].tag = "function" THEN "Function"
                    ELSE IF t # None /\ t[1].tag = "table"
                            /\ t[1].name = <<"RBXScriptSignal">> THEN "Event"
                    ELSE IF t # None /\ t[1].tag = "class" THEN "Class"
                    ELSE CategoryKind(entry.kind)

C22_SignalClassAndPlainTable ==
    /\ last.op = "completion"
    /\ Len(last.items) = 3
    /\ last.items[1] = [label |-> "y", kind |-> "Class"]
    /\ last.items[2] = [label |-> "x", kind |-> "Event"]
    /\ last.items[3] = [label |-> "z", kind |-> "Module"]

-----------------------------------------------------------------------------
(* Setup and routing (SpecSetup) *)

SetupLog == workspace.log

\* the calls that write into the global type environment of a type checker
Registrations == {"registerBuiltinTypes", "loadDefinitionFile", "makeProperty",
                  "attachMagicFunction"}

FreezeAt(typeChecker) == IndexOf(SetupLog, Event("freeze", typeChecker, ""))

AnalysisCalls == {"check", "lint", "autocomplete"}

\* C14: whatever setup met, its last two calls freeze the global types of the
\* type checker and of the autocomplete type checker, each environment is
\* frozen once, every call that registers into an environment comes before the
\* freeze of that environment, and a request that checks, lints or completes
\* finds both frozen.
C14_RegistrationsBeforeFreeze ==
    /\ Len(SetupLog) >= 2
    /\ SubSeq(SetupLog, Len(SetupLog) - 1, Len(SetupLog)) = SetupFreeze
    /\ \A t \in Range(TypeCheckers) :
        /\ Count(SetupLog, Event("freeze", t, "")) = 1
        /\ \A i \in 1..Len(SetupLog) :
            (SetupLog[i][1] \in Registrations /\ SetupLog[i][2] = t) => i < FreezeAt(t)
    /\ (\E i \in 1..Len(last.calls) : last.calls[i][1] \in AnalysisCalls)
            => \A t \in Range(TypeCheckers) : FreezeAt(t) > 0

C14_CheckedAfterFailedDefinitions ==
    /\ workspace.definitionsFile = "syntaxError"
    /\ workspace.sourcemapFile = "valid"
    /\ Event("loadDefinitionFile", TypeCheckers[2], "") \in Range(SetupLog)
    /\ last.op = "gotoDefinition"
    /\ Call("check", getModuleName(UriA)) \in Range(last.calls)

\* C15: in a folder that is not the null workspace, a missing or malformed
\* sourcemap.json and a definitions file that is not provided, unreadable or
\* syntactically wrong each bring a window message of Warning type, and setup
\* still runs to its end.
C15_FailuresWarnedAbout ==
    ~isNullWorkspace(workspace.name) =>
        /\ workspace.sourcemapFile \in {"absent", "malformed"}
            => sendWindowMessage("Warning", "sourcemap") \in Range(SetupLog)
        /\ workspace.definitionsFile \in {"notProvided", "unreadable", "syntaxError"}
            => sendWindowMessage("Warning", "definitions") \in Range(SetupLog)
        /\ SubSeq(SetupLog, Len(SetupLog) - 1, Len(SetupLog)) = SetupFreeze

\* C16: the setup of the folder named "$NULL_WORKSPACE" calls no
\* updateSourceMap, reads no sourcemap.json and sends no message about the
\* sourcemap; the setup of any other folder calls updateSourceMap once.
C16_NullWorkspaceLoadsNoSourcemap ==
    IF workspace.name = "$NULL_WORKSPACE"
    THEN /\ Event("updateSourceMap", "", "") \notin Range(SetupLog)
         /\ Event("readFile", "sourcemap.json", "") \notin Range(SetupLog)
         /\ \A i \in 1..Len(SetupLog) :
                ~(SetupLog[i][1] = "sendWindowMessage" /\ SetupLog[i][3] = "sourcemap")
         /\ sourcemap = NoSourcemap
    ELSE Count(SetupLog, Event("updateSourceMap", "", "")) = 1

C16_NullWorkspaceBesideSourcemap ==
    /\ workspace.name = "$NULL_WORKSPACE"
    /\ workspace.sourcemapFile = "valid"
    /\ last.op = "setup"

\* the file is the root directory or lies below it
AtOrBelow(file, root) ==
    Len(file) >= Len(root) /\ SubSeq(file, 1, Len(root)) = root

\* C17: a folder reports a file as its own exactly when the file is at or
\* below the folder's root directory, so of folders whose roots are not nested
\* at most one reports it.
C17_ContainedOnlyAtOrBelowRoot ==
    last.op = "isInWorkspace" =>
        /\ \A root \in WorkspaceRoots :
                (root \in last.contained) = AtOrBelow(last.file, root)
        /\ Cardinality(last.contained) <= 1

====
